---- MODULE Spec2Model ----
(***************************************************************************)
(* Order / reputation engine of the restaurant application.                *)
(*                                                                         *)
(* Money.  Database columns are DecimalField(max_digits=10,                *)
(* decimal_places=2): a stored amount is an integer number of cents.       *)
(* Values held in a request's memory are Python Decimals that may carry    *)
(* more digits (the VIP discount is subtotal * Decimal('0.05'), four       *)
(* decimal places); they are modelled in units of 1/100 cent ("U").  A     *)
(* save() quantizes the in-memory value to cents, rounding half to even.   *)
(***************************************************************************)
EXTENDS Integers, Sequences, FiniteSets, TLC

\* -------------------------------------------------------------- bounds
MaxOrders == 2
MaxWarnings == 2
MaxDepositCents == 20000
MaxBids == 3
MaxComplaints == 3
MaxCompliments == 1
MaxCount == 3

\* ------------------------------------------------------------ universe
Customers == {"alice"}
Chefs == {"carla", "marco"}
Couriers == {"dan", "eve", "fay"}
Threads == {"t1", "t2"}

NoCourier == "none"

\* The catalog (Dish rows): price in cents, owning chef, availability, VIP flag.
Dishes ==
    [ noodles |-> [price |-> 3000, chef |-> "carla", is_available |-> TRUE,  is_vip_only |-> FALSE],
      soup    |-> [price |-> 1010, chef |-> "carla", is_available |-> TRUE,  is_vip_only |-> FALSE],
      lobster |-> [price |-> 5000, chef |-> "marco", is_available |-> TRUE,  is_vip_only |-> TRUE ],
      special |-> [price |-> 2000, chef |-> "marco", is_available |-> FALSE, is_vip_only |-> FALSE] ]

DishIds == DOMAIN Dishes

\* Amounts a customer may post to add_deposit, in U (1/100 cent):
\* 0 (rejected), 0.005 (sub-cent), 50.00, 150.00.
DepositAmountsU == {0, 50, 500000, 1500000}

\* Amounts a courier may post to bid_on_delivery, in U: 0 (rejected), 9.50, 12.00.
BidAmountsU == {0, 95000, 120000}

STATUS_CHOICES ==
    {"pending", "confirmed", "ready", "out_for_delivery", "delivered", "cancelled"}

Item(d, q) == [dish_id |-> d, quantity |-> q]

\* Request bodies of create_order (the "items" list; a quantity of 0 stands
\* for any quantity <= 0):
\*   two lines totalling 60.00; 10.10 (5% of it is 0.505); the VIP-only
\*   dish twice (100.00); an unavailable dish alone and after 60.00 of a
\*   regular dish; a non-positive quantity; no items at all.
Requests ==
    { <<Item("noodles", 1), Item("noodles", 1)>>,
      <<Item("soup", 1)>>,
      <<Item("lobster", 2)>>,
      <<Item("special", 1)>>,
      <<Item("noodles", 2), Item("special", 1)>>,
      <<Item("soup", 0)>>,
      <<>> }

\* ------------------------------------------------------------- state
VARIABLES
    customers,   \* Customer rows: deposit, total_spent (cents), counters, flags
    orders,      \* Order rows with their OrderItem rows; the id is the index
    bids,        \* DeliveryBid rows in creation order; the id is the index
    couriers,    \* DeliveryPerson rows
    threads,     \* requests in flight: each one's position and local variables
    resp,        \* the last response sent
    chefs,       \* Chef rows
    complaints,  \* Complaint rows in creation order; the id is the index
    compliments, \* Compliment rows in creation order
    ratings      \* DishRating rows in creation order

\* The tables the reputation rules read and write.
reputation == <<chefs, complaints, compliments, ratings>>

vars == <<customers, orders, bids, couriers, threads, resp, chefs, complaints, compliments, ratings>>

\* --------------------------------------------------------------- rows
\* A Customer row with the column defaults.
NewCustomer ==
    [deposit |-> 0, warnings |-> 0, total_spent |-> 0, order_count |-> 0,
     is_vip |-> FALSE, is_blacklisted |-> FALSE]

\* A DeliveryPerson row with the column defaults.
NewDeliveryPerson ==
    [demotion_count |-> 0, bonus_count |-> 0, is_active |-> TRUE, is_terminated |-> FALSE]

\* A Chef row with the column defaults.
NewChef ==
    [demotion_count |-> 0, bonus_count |-> 0, is_active |-> TRUE, is_terminated |-> FALSE]

\* ------------------------------------------------------- decimal fields
ToU(cents) == cents * 100

\* DecimalField.get_db_prep_save: quantize to two places, ROUND_HALF_EVEN.
QuantizeCents(u) ==
    LET a == IF u < 0 THEN -u ELSE u
        q == a \div 100
        r == a % 100
        m == IF r > 50 \/ (r = 50 /\ q % 2 = 1) THEN q + 1 ELSE q
    IN  IF u < 0 THEN -m ELSE m

\* Customer.save(): the in-memory record (amounts in U) written to the row.
SaveCustomer(mem) ==
    [mem EXCEPT !.deposit = QuantizeCents(mem.deposit),
                !.total_spent = QuantizeCents(mem.total_spent)]

\* request.user.customer: the row read into memory.
LoadCustomer(row) ==
    [row EXCEPT !.deposit = ToU(row.deposit),
                !.total_spent = ToU(row.total_spent)]

\* Customer.check_vip_status on the in-memory record (the caller saves).
CheckVipStatus(mem) ==
    IF mem.total_spent >= ToU(10000) \/ mem.order_count >= 3
    THEN [mem EXCEPT !.is_vip = TRUE]
    ELSE mem

\* ------------------------------------------------------ create_order
\* Mutant: the loop checks availability and the VIP flag of the first item only.
ValidateItems_FirstOnly(items, is_vip) ==
    IF items = <<>> THEN "ok"
    ELSE LET item == Head(items)
             dish == Dishes[item.dish_id]
         IN  IF item.quantity <= 0 THEN "invalid_quantity"
             ELSE IF ~dish.is_available THEN "dish_unavailable"
             ELSE IF dish.is_vip_only /\ ~is_vip THEN "vip_required"
             ELSE "ok"

\* The validation loop over the request's items: the first failing item
\* decides the error.
RECURSIVE ValidateItems(_, _)
ValidateItems(items, is_vip) ==
    IF items = <<>> THEN "ok"
    ELSE LET item == Head(items)
             dish == Dishes[item.dish_id]
         IN  IF item.quantity <= 0 THEN "invalid_quantity"
             ELSE IF ~dish.is_available THEN "dish_unavailable"
             ELSE IF dish.is_vip_only /\ ~is_vip THEN "vip_required"
             ELSE ValidateItems(Tail(items), is_vip)

\* total_amount before the discount, in cents.
RECURSIVE Subtotal(_)
Subtotal(items) ==
    IF items = <<>> THEN 0
    ELSE Dishes[Head(items).dish_id].price * Head(items).quantity + Subtotal(Tail(items))

\* discount = total_amount * Decimal('0.05') for a VIP, in U; not rounded.
Discount(subtotal, is_vip) ==
    IF is_vip THEN subtotal * 5 ELSE 0

\* total_amount after the discount, in U.
TotalAfterDiscount(subtotal, is_vip) ==
    ToU(subtotal) - Discount(subtotal, is_vip)

\* Mutant: the balance check compares the wrong way round.
InsufficientFunds_Inverted(totalU, mem) ==
    totalU < mem.deposit

\* if total_amount > customer.deposit
InsufficientFunds(totalU, mem) ==
    totalU > mem.deposit

\* Mutant: the rejection forgets the warning.
WarnCustomer_Forgotten(mem) ==
    mem

\* customer.warnings += 1
WarnCustomer(mem) ==
    [mem EXCEPT !.warnings = @ + 1]

\* The OrderItem rows: dish, quantity and the price snapshot.
OrderItems(items) ==
    [i \in 1..Len(items) |->
        [dish |-> items[i].dish_id,
         quantity |-> items[i].quantity,
         price |-> Dishes[items[i].dish_id].price]]

\* Order.objects.create(...): total_amount is quantized by the column;
\* vip_discount is not passed and takes the column default 0.00.
NewOrder(c, totalU, items) ==
    [customer |-> c,
     status |-> "pending",
     total_amount |-> QuantizeCents(totalU),
     vip_discount |-> 0,
     delivery_person |-> NoCourier,
     items |-> OrderItems(items)]

\* customer.deposit -= total; total_spent += total; order_count += 1
DebitCustomer(mem, totalU) ==
    [mem EXCEPT !.deposit = @ - totalU,
                !.total_spent = @ + totalU,
                !.order_count = @ + 1]

\* What update_employee_status writes to stdout about each employee: the
\* kinds of change listed in changes_made ("demotion", "fired", "bonus").
\* Nothing is written for an employee without changes.
NoReport == [e \in Chefs \cup Couriers |-> {}]

\* The fields of a response the properties read: the operation, the HTTP
\* status, the outcome, total_amount / bid_amount / refunded_amount (U),
\* discount_amount (U), the order and the courier concerned, and (for the
\* management command) the changes written to stdout.
Response(op, code, detail, amountU, discountU, o, who) ==
    [op |-> op, code |-> code, detail |-> detail,
     amount |-> amountU, discount_amount |-> discountU, order |-> o, who |-> who,
     report |-> NoReport]

Reject(op, code, detail) ==
    /\ resp' = Response(op, code, detail, 0, 0, 0, "none")
    /\ UNCHANGED <<customers, orders, bids, couriers>>

\* create_order, run to completion without interference.
\* addr_found = FALSE: an address_id was posted that is not the customer's.
CreateOrder(c, items, addr_found) ==
    LET mem      == LoadCustomer(customers[c])
        valid    == ValidateItems(items, mem.is_vip)
        subtotal == Subtotal(items)
        discount == Discount(subtotal, mem.is_vip)
        totalU   == TotalAfterDiscount(subtotal, mem.is_vip)
    IN  /\ UNCHANGED reputation
        /\ UNCHANGED threads
        /\ IF items = <<>> THEN Reject("create_order", 400, "no_items")
           ELSE IF valid = "vip_required" THEN Reject("create_order", 403, valid)
           ELSE IF valid # "ok" THEN Reject("create_order", 400, valid)
           ELSE IF InsufficientFunds(totalU, mem)
           THEN /\ mem.warnings < MaxWarnings
                /\ customers' = [customers EXCEPT ![c] = SaveCustomer(WarnCustomer(mem))]
                /\ resp' = Response("create_order", 400, "insufficient_funds", 0, 0, 0, "none")
                /\ UNCHANGED <<orders, bids, couriers>>
           ELSE IF ~addr_found THEN Reject("create_order", 400, "address_not_found")
           ELSE /\ Len(orders) < MaxOrders
                /\ orders' = Append(orders, NewOrder(c, totalU, items))
                /\ customers' = [customers EXCEPT ![c] =
                                   SaveCustomer(CheckVipStatus(DebitCustomer(mem, totalU)))]
                /\ resp' = Response("create_order", 200, "success", totalU, discount,
                                    Len(orders) + 1, "none")
                /\ UNCHANGED <<bids, couriers>>

\* ------------------------------------------------------- add_deposit
AddDeposit(c, amountU) ==
    /\ UNCHANGED reputation
    /\ UNCHANGED threads
    /\ IF amountU <= 0 THEN Reject("add_deposit", 400, "amount_not_positive")
       ELSE LET mem == LoadCustomer(customers[c])
            IN  /\ mem.deposit + amountU <= ToU(MaxDepositCents)
                /\ customers' = [customers EXCEPT ![c] =
                                   SaveCustomer([mem EXCEPT !.deposit = @ + amountU])]
                /\ resp' = Response("add_deposit", 200, "success", 0, 0, 0, "none")
                /\ UNCHANGED <<orders, bids, couriers>>

\* ------------------------------------------------------ cancel_order
\* Mutant: the order count is decremented without the floor.
RefundCustomer_NoFloor(mem, order) ==
    [mem EXCEPT !.deposit = @ + ToU(order.total_amount),
                !.order_count = @ - 1]

\* customer.deposit += order.total_amount; order_count = max(0, order_count - 1)
RefundCustomer(mem, order) ==
    [mem EXCEPT !.deposit = @ + ToU(order.total_amount),
                !.order_count = IF @ - 1 > 0 THEN @ - 1 ELSE 0]

\* Mutant: a confirmed order may still be cancelled.
Cancellable_UntilConfirmed(order) ==
    order.status \in {"pending", "confirmed"}

\* if order.status != 'pending': refuse
Cancellable(order) ==
    order.status = "pending"

\* cancel_order for order id o, requested by customer c.
CancelOrder(c, o) ==
    /\ UNCHANGED reputation
    /\ UNCHANGED threads
    /\ IF o \notin DOMAIN orders \/ orders[o].customer # c
       THEN Reject("cancel_order", 404, "order_not_found")
       ELSE IF ~Cancellable(orders[o])
       THEN Reject("cancel_order", 400, "not_pending")
       ELSE /\ customers[c].deposit + orders[o].total_amount <= MaxDepositCents
            /\ customers' = [customers EXCEPT ![c] =
                               SaveCustomer(RefundCustomer(LoadCustomer(customers[c]), orders[o]))]
            /\ orders' = [orders EXCEPT ![o].status = "cancelled"]
            /\ resp' = Response("cancel_order", 200, "success",
                                ToU(orders[o].total_amount), 0, o, "none")
            /\ UNCHANGED <<bids, couriers>>

\* ---------------------------------------------------- admin: customers
\* CustomerAdmin.grant_vip_status on one selected customer.
GrantVipStatus(c) ==
    /\ UNCHANGED reputation
    /\ customers' = [customers EXCEPT ![c].is_vip = TRUE]
    /\ resp' = Response("grant_vip_status", 200, "success", 0, 0, 0, "none")
    /\ UNCHANGED <<orders, bids, couriers, threads>>

\* CustomerAdmin change form: the manager edits the warnings field.
SetWarnings(c, n) ==
    /\ UNCHANGED reputation
    /\ customers' = [customers EXCEPT ![c].warnings = n]
    /\ resp' = Response("set_warnings", 200, "success", 0, 0, 0, "none")
    /\ UNCHANGED <<orders, bids, couriers, threads>>

\* CustomerAdmin.blacklist_customer on one selected customer.
BlacklistCustomer(c) ==
    /\ UNCHANGED reputation
    /\ customers' = [customers EXCEPT ![c].is_blacklisted = TRUE]
    /\ resp' = Response("blacklist_customer", 200, "success", 0, 0, 0, "none")
    /\ UNCHANGED <<orders, bids, couriers, threads>>

\* CustomerAdmin.approve_registration on one selected customer.
ApproveRegistration(c) ==
    /\ UNCHANGED reputation
    /\ customers' = [customers EXCEPT ![c].is_blacklisted = FALSE]
    /\ resp' = Response("approve_registration", 200, "success", 0, 0, 0, "none")
    /\ UNCHANGED <<orders, bids, couriers, threads>>

\* ------------------------------------------------- admin: order status
\* OrderAdmin.set_status_<s>: queryset.update(status=s) on the selected
\* orders Q, whatever their current status.
SetStatusRows(rows, Q, s) ==
    [o \in DOMAIN rows |-> IF o \in Q THEN [rows[o] EXCEPT !.status = s] ELSE rows[o]]

SetStatus(Q, s) ==
    /\ UNCHANGED reputation
    /\ Q # {}
    /\ Q \subseteq DOMAIN orders
    /\ orders' = SetStatusRows(orders, Q, s)
    /\ resp' = Response("set_status", 200, s, 0, 0, 0, "none")
    /\ UNCHANGED <<customers, bids, couriers, threads>>

ChefOwnsItem(chef, order) ==
    \E i \in DOMAIN order.items : Dishes[order.items[i].dish].chef = chef

\* OrderItemAdmin.changelist_view?order_id=o&status=s requested by a chef.
ChefChangeStatus(chef, o, s) ==
    /\ UNCHANGED reputation
    /\ UNCHANGED <<customers, bids, couriers, threads>>
    /\ IF o \in DOMAIN orders /\ ChefOwnsItem(chef, orders[o]) /\ s \in {"confirmed", "ready"}
       THEN /\ orders' = [orders EXCEPT ![o].status = s]
            /\ resp' = Response("chef_change_status", 200, s, 0, 0, o, "none")
       ELSE /\ resp' = Response("chef_change_status", 200, "ignored", 0, 0, 0, "none")
            /\ UNCHANGED orders

\* --------------------------------------------------- bid_on_delivery
\* Order.objects.get(id=order_id, status='confirmed') finds a row.
OpenForBids(o) ==
    o \in DOMAIN orders /\ orders[o].status = "confirmed"

\* The rows DeliveryBid.objects.get(delivery_person=k, order=o) matches.
BidRows(rows, k, o) ==
    {i \in DOMAIN rows : rows[i].delivery_person = k /\ rows[i].order = o}

NewBid(k, o, amountU) ==
    [delivery_person |-> k, order |-> o,
     bid_amount |-> QuantizeCents(amountU), is_selected |-> FALSE,
     justification |-> ""]

\* bid.bid_amount = bid_amount; bid.save() on the row read by get().
UpdateBid(row, amountU) ==
    [row EXCEPT !.bid_amount = QuantizeCents(amountU)]

\* bid_on_delivery by courier k on order id o, run to completion without
\* interference.  The order's delivery_person is not looked at.
BidOnDelivery(k, o, amountU) ==
    /\ UNCHANGED <<threads, reputation>>
    /\ IF amountU <= 0 THEN Reject("bid_on_delivery", 400, "amount_not_positive")
       ELSE IF ~OpenForBids(o) THEN Reject("bid_on_delivery", 404, "order_not_found")
       ELSE IF ~couriers[k].is_active THEN Reject("bid_on_delivery", 403, "not_active")
       ELSE LET found == BidRows(bids, k, o)
            IN  IF found = {}
                THEN /\ Len(bids) < MaxBids
                     /\ bids' = Append(bids, NewBid(k, o, amountU))
                     /\ resp' = Response("bid_on_delivery", 200, "created", amountU, 0, o, k)
                     /\ UNCHANGED <<customers, orders, couriers>>
                ELSE IF Cardinality(found) = 1
                THEN LET i == CHOOSE j \in found : TRUE
                     IN  /\ bids' = [bids EXCEPT ![i] = UpdateBid(bids[i], amountU)]
                         /\ resp' = Response("bid_on_delivery", 200, "updated", amountU, 0, o, k)
                         /\ UNCHANGED <<customers, orders, couriers>>
                ELSE Reject("bid_on_delivery", 500, "bidding_failed")

\* ------------------------------------------------------ admin: bids
\* order_bids.order_by('bid_amount', 'created_at').first() over the rows S
\* (rows are kept in creation order, so the index orders created_at).
LowestBid(rows, S) ==
    CHOOSE i \in S : \A j \in S :
        \/ rows[i].bid_amount < rows[j].bid_amount
        \/ rows[i].bid_amount = rows[j].bid_amount /\ i <= j

\* The ticked rows Q that belong to order o: queryset.filter(order_id=o).
OrderBids(rows, Q, o) ==
    {i \in Q : rows[i].order = o}

\* auto_select_lowest_bid over the ticked rows Q: per order, the ticked rows
\* are updated to is_selected = False and the lowest of them is saved as
\* selected with the justification.  Rows that were not ticked are not touched.
AutoSelectRows(rows, Q) ==
    [i \in DOMAIN rows |->
        IF i \notin Q THEN rows[i]
        ELSE IF i = LowestBid(rows, OrderBids(rows, Q, rows[i].order))
        THEN [rows[i] EXCEPT !.is_selected = TRUE,
                             !.justification = "Automatically selected as lowest bid"]
        ELSE [rows[i] EXCEPT !.is_selected = FALSE]]

\* DeliveryBidAdmin.auto_select_lowest_bid on the ticked rows Q.  No Order
\* row is written.
AutoSelectLowestBid(Q) ==
    /\ Q # {}
    /\ Q \subseteq DOMAIN bids
    /\ bids' = AutoSelectRows(bids, Q)
    /\ resp' = Response("auto_select_lowest_bid", 200, "success", 0, 0, 0, "none")
    /\ UNCHANGED <<customers, orders, couriers, threads, reputation>>

\* for bid in queryset: bid.is_selected = v; bid.save()
MarkBids(rows, Q, v) ==
    [i \in DOMAIN rows |-> IF i \in Q THEN [rows[i] EXCEPT !.is_selected = v] ELSE rows[i]]

\* DeliveryBidAdmin.select_bids on the ticked rows Q.
SelectBids(Q) ==
    /\ Q # {}
    /\ Q \subseteq DOMAIN bids
    /\ bids' = MarkBids(bids, Q, TRUE)
    /\ resp' = Response("select_bids", 200, "success", 0, 0, 0, "none")
    /\ UNCHANGED <<customers, orders, couriers, threads, reputation>>

\* DeliveryBidAdmin.deselect_bids on the ticked rows Q.
DeselectBids(Q) ==
    /\ Q # {}
    /\ Q \subseteq DOMAIN bids
    /\ bids' = MarkBids(bids, Q, FALSE)
    /\ resp' = Response("deselect_bids", 200, "success", 0, 0, 0, "none")
    /\ UNCHANGED <<customers, orders, couriers, threads, reputation>>

\* OrderAdmin change form: the manager sets the order's delivery_person
\* (the field is not read-only).
AssignCourier(o, k) ==
    /\ o \in DOMAIN orders
    /\ orders' = [orders EXCEPT ![o].delivery_person = k]
    /\ resp' = Response("assign_courier", 200, "success", 0, 0, o, k)
    /\ UNCHANGED <<customers, bids, couriers, threads, reputation>>

\* -------------------------------------------------- admin: couriers
\* DeliveryPersonAdmin.deactivate_delivery on one selected courier.
DeactivateDelivery(k) ==
    /\ UNCHANGED reputation
    /\ couriers' = [couriers EXCEPT ![k].is_active = FALSE]
    /\ resp' = Response("deactivate_delivery", 200, "success", 0, 0, 0, k)
    /\ UNCHANGED <<customers, orders, bids, threads>>

\* DeliveryPersonAdmin.activate_delivery on one selected courier.
ActivateDelivery(k) ==
    /\ UNCHANGED reputation
    /\ couriers' = [couriers EXCEPT ![k].is_active = TRUE, ![k].is_terminated = FALSE]
    /\ resp' = Response("activate_delivery", 200, "success", 0, 0, 0, k)
    /\ UNCHANGED <<customers, orders, bids, threads>>

\* ------------------------------------------------- employee reputation
NoChef == "none"

\* Complaint.customer, the customer a complaint is about, is nullable.
NoCustomer == "none"

\* Ratings a customer may post to rate_dish (1..5 are accepted).
RatingValues == {1, 3, 5}

\* A Complaint / Compliment row: who filed it, the chef or courier it is
\* about, its status.
NewComplaint(c, h, k, status) ==
    [complainant |-> c, chef |-> h, delivery_person |-> k, customer |-> NoCustomer,
     order |-> 0, status |-> status]

NewCompliment(c, h, k, status) ==
    [complimenter |-> c, chef |-> h, delivery_person |-> k, customer |-> NoCustomer,
     order |-> 0, status |-> status]

NewDishRating(c, d, rating) ==
    [customer |-> c, dish |-> d, rating |-> rating]

\* order_items.first().dish.chef
ChefOf(order) ==
    Dishes[order.items[1].dish].chef

\* Complaint.objects.filter(chef=h, status='resolved').count()
ResolvedComplaints(rows, h) ==
    Cardinality({i \in DOMAIN rows : rows[i].chef = h /\ rows[i].status = "resolved"})

\* Compliment.objects.filter(chef=h, status='approved').count()
ApprovedCompliments(rows, h) ==
    Cardinality({i \in DOMAIN rows : rows[i].chef = h /\ rows[i].status = "approved"})

\* The same counts for a courier.
ResolvedComplaintsOfCourier(rows, k) ==
    Cardinality({i \in DOMAIN rows : rows[i].delivery_person = k /\ rows[i].status = "resolved"})

ApprovedComplimentsOfCourier(rows, k) ==
    Cardinality({i \in DOMAIN rows : rows[i].delivery_person = k /\ rows[i].status = "approved"})

\* DishRating.objects.filter(dish__chef=h)
ChefRatings(rows, h) ==
    {i \in DOMAIN rows : Dishes[rows[i].dish].chef = h}

RECURSIVE SumRatings(_, _)
SumRatings(rows, S) ==
    IF S = {} THEN 0
    ELSE LET i == CHOOSE j \in S : TRUE
         IN  rows[i].rating + SumRatings(rows, S \ {i})

\* Avg('rating') < 2 and > 4 over the rows S, when there is a row.
AvgBelowTwo(rows, S) ==
    S # {} /\ SumRatings(rows, S) < 2 * Cardinality(S)

AvgAboveFour(rows, S) ==
    S # {} /\ SumRatings(rows, S) > 4 * Cardinality(S)

\* One employee in the sweep of update_employee_status: avg_rating is
\* "Avg or 0", so an employee without ratings has avg_rating 0 (< 2).
\* The firing branch sets is_active only; is_terminated is not written.
UpdateEmployee(row, complaints_count, compliments_count, S) ==
    LET net_complaints == IF complaints_count - compliments_count > 0
                          THEN complaints_count - compliments_count ELSE 0
        avg_low  == S = {} \/ AvgBelowTwo(ratings, S)
        avg_high == AvgAboveFour(ratings, S)
    IN  IF net_complaints >= 3 \/ avg_low
        THEN [row EXCEPT !.demotion_count = @ + 1,
                         !.is_active = IF row.demotion_count + 1 >= 2 THEN FALSE ELSE @]
        ELSE IF compliments_count >= 3 \/ avg_high
        THEN [row EXCEPT !.bonus_count = @ + 1]
        ELSE row

\* changes_made for one employee in the sweep.  In a dry run the count is
\* not raised before "if demotion_count >= 2" is tested.
ChangesMade(row, complaints_count, compliments_count, S, dry_run) ==
    LET net_complaints == IF complaints_count - compliments_count > 0
                          THEN complaints_count - compliments_count ELSE 0
        avg_low  == S = {} \/ AvgBelowTwo(ratings, S)
        avg_high == AvgAboveFour(ratings, S)
        demotion_count == IF dry_run THEN row.demotion_count ELSE row.demotion_count + 1
    IN  IF net_complaints >= 3 \/ avg_low
        THEN {"demotion"} \cup (IF demotion_count >= 2 THEN {"fired"} ELSE {})
        ELSE IF compliments_count >= 3 \/ avg_high
        THEN {"bonus"}
        ELSE {}

\* The lines update_chefs and update_delivery_persons write, by employee.
SweepReport(dry_run) ==
    [e \in Chefs \cup Couriers |->
        IF e \in Chefs
        THEN IF chefs[e].is_active
             THEN ChangesMade(chefs[e], ResolvedComplaints(complaints, e),
                              ApprovedCompliments(compliments, e), ChefRatings(ratings, e),
                              dry_run)
             ELSE {}
        ELSE IF couriers[e].is_active
             THEN ChangesMade(couriers[e], ResolvedComplaintsOfCourier(complaints, e),
                              ApprovedComplimentsOfCourier(compliments, e), {}, dry_run)
             ELSE {}]

\* Command.update_chefs over Chef.objects.filter(is_active=True).
UpdateChefs(rows) ==
    [h \in DOMAIN rows |->
        IF rows[h].is_active
        THEN UpdateEmployee(rows[h], ResolvedComplaints(complaints, h),
                            ApprovedCompliments(compliments, h), ChefRatings(ratings, h))
        ELSE rows[h]]

\* Command.update_delivery_persons over the active couriers.  No
\* DeliveryRating row is posted in this model: the rating set is empty.
UpdateDeliveryPersons(rows) ==
    [k \in DOMAIN rows |->
        IF rows[k].is_active
        THEN UpdateEmployee(rows[k], ResolvedComplaintsOfCourier(complaints, k),
                            ApprovedComplimentsOfCourier(compliments, k), {})
        ELSE rows[k]]

\* The counters stay within the model's range.
CountsInRange(rows) ==
    \A e \in DOMAIN rows :
        rows[e].demotion_count <= MaxCount /\ rows[e].bonus_count <= MaxCount

\* manage.py update_employee_status [--dry-run]
UpdateEmployeeStatus(dry_run) ==
    /\ CountsInRange(UpdateChefs(chefs))
    /\ CountsInRange(UpdateDeliveryPersons(couriers))
    /\ chefs' = IF dry_run THEN chefs ELSE UpdateChefs(chefs)
    /\ couriers' = IF dry_run THEN couriers ELSE UpdateDeliveryPersons(couriers)
    /\ resp' = [Response("update_employee_status", 200,
                         IF dry_run THEN "dry_run" ELSE "applied", 0, 0, 0, "none")
                    EXCEPT !.report = SweepReport(dry_run)]
    /\ UNCHANGED <<customers, orders, bids, threads, complaints, compliments, ratings>>

\* signals.check_employee_ratings on one employee row: only an active
\* employee with ratings is looked at (Avg over no rows is NULL and matches
\* neither filter); the firing branch sets is_active only.
CheckRatings(row, S) ==
    IF ~row.is_active THEN row
    ELSE IF AvgBelowTwo(ratings, S)
    THEN [row EXCEPT !.demotion_count = @ + 1,
                     !.is_active = IF row.demotion_count + 1 >= 2 THEN FALSE ELSE @]
    ELSE IF AvgAboveFour(ratings, S)
    THEN [row EXCEPT !.bonus_count = @ + 1]
    ELSE row

CheckEmployeeRatings ==
    LET after == [h \in DOMAIN chefs |-> CheckRatings(chefs[h], ChefRatings(ratings, h))]
    IN  /\ CountsInRange(after)
        /\ chefs' = after
        /\ resp' = Response("check_employee_ratings", 200, "applied", 0, 0, 0, "none")
        /\ UNCHANGED <<customers, orders, bids, couriers, threads, complaints, compliments, ratings>>

\* post_save receiver handle_employee_demotion, chef part: the count is
\* raised on the Chef object fetched through instance.chef, which is saved
\* only when the raised count is >= 2; the employee's is_active and
\* is_terminated are not consulted.
HandleEmployeeDemotion(rows, instance, created) ==
    IF created /\ instance.status = "resolved" /\ instance.chef # NoChef
    THEN LET chef == [rows[instance.chef] EXCEPT !.demotion_count = @ + 1]
         IN  IF chef.demotion_count >= 3
             THEN [rows EXCEPT ![instance.chef] = chef]
             ELSE IF chef.demotion_count >= 2
             THEN [rows EXCEPT ![instance.chef] = [chef EXCEPT !.is_active = FALSE]]
             ELSE rows
    ELSE rows

\* post_save receiver handle_employee_bonus, chef part: saved only when the
\* raised count is >= 3.
HandleEmployeeBonus(rows, instance, created) ==
    IF created /\ instance.status = "approved" /\ instance.chef # NoChef
    THEN LET chef == [rows[instance.chef] EXCEPT !.bonus_count = @ + 1]
         IN  IF chef.bonus_count >= 3
             THEN [rows EXCEPT ![instance.chef] = chef]
             ELSE rows
    ELSE rows

\* post_save receiver handle_customer_warnings, on the complainant.
HandleCustomerWarnings(rows, instance, created) ==
    IF created /\ instance.status = "resolved"
    THEN LET customer == rows[instance.complainant]
         IN  IF customer.warnings >= 3
             THEN [rows EXCEPT ![instance.complainant].is_blacklisted = TRUE]
             ELSE IF customer.is_vip /\ customer.warnings >= 2
             THEN [rows EXCEPT ![instance.complainant].is_vip = FALSE,
                               ![instance.complainant].warnings = 0]
             ELSE rows
    ELSE rows

\* Complaint.save() and its post_save receivers.
SaveComplaint(rows, i, instance, created) ==
    /\ complaints' = IF created THEN Append(rows, instance) ELSE [rows EXCEPT ![i] = instance]
    /\ customers' = HandleCustomerWarnings(customers, instance, created)
    /\ chefs' = HandleEmployeeDemotion(chefs, instance, created)

\* Compliment.save() and its post_save receiver.
SaveCompliment(rows, i, instance, created) ==
    /\ compliments' = IF created THEN Append(rows, instance) ELSE [rows EXCEPT ![i] = instance]
    /\ chefs' = HandleEmployeeBonus(chefs, instance, created)

\* file_complaint_compliment with target_type 'chef' about order id o: the
\* row is created with status 'pending'.
FileComplaintCompliment(c, o, type) ==
    /\ UNCHANGED <<orders, bids, couriers, threads, ratings>>
    /\ IF o \notin DOMAIN orders \/ orders[o].customer # c
       THEN /\ resp' = Response("file_complaint_compliment", 404, "order_not_found", 0, 0, 0, "none")
            /\ UNCHANGED <<customers, chefs, complaints, compliments>>
       ELSE IF type = "complaint"
       THEN /\ Len(complaints) < MaxComplaints
            /\ SaveComplaint(complaints, 0,
                             [NewComplaint(c, ChefOf(orders[o]), NoCourier, "pending")
                                 EXCEPT !.order = o], TRUE)
            /\ resp' = Response("file_complaint_compliment", 200, "complaint", 0, 0, o, "none")
            /\ UNCHANGED compliments
       ELSE /\ Len(compliments) < MaxCompliments
            /\ SaveCompliment(compliments, 0,
                              [NewCompliment(c, ChefOf(orders[o]), NoCourier, "pending")
                                  EXCEPT !.order = o], TRUE)
            /\ resp' = Response("file_complaint_compliment", 200, "compliment", 0, 0, o, "none")
            /\ UNCHANGED <<customers, complaints>>

\* file_complaint_compliment with type 'complaint', target_type 'customer'
\* and target_id the customer x (any Customer id is taken, the
\* complainant's own included): the row is created with status 'pending'.
FileComplaintAboutCustomer(c, o, x) ==
    /\ UNCHANGED <<orders, bids, couriers, threads, compliments, ratings>>
    /\ IF o \notin DOMAIN orders \/ orders[o].customer # c
       THEN /\ resp' = Response("file_complaint_compliment", 404, "order_not_found", 0, 0, 0, "none")
            /\ UNCHANGED <<customers, chefs, complaints>>
       ELSE /\ Len(complaints) < MaxComplaints
            /\ SaveComplaint(complaints, 0,
                             [NewComplaint(c, NoChef, NoCourier, "pending")
                                 EXCEPT !.customer = x, !.order = o], TRUE)
            /\ resp' = Response("file_complaint_compliment", 200, "complaint", 0, 0, o, x)

\* The complaints / compliments customer c filed about order o.
ComplaintsOnOrder(rows, c, o) ==
    {i \in DOMAIN rows : rows[i].order = o /\ rows[i].complainant = c}

ComplimentsOnOrder(rows, c, o) ==
    {i \in DOMAIN rows : rows[i].order = o /\ rows[i].complimenter = c}

\* file_order_complaint_compliment with target_type 'dish' and target_id
\* the dish d (any Dish id is taken): the order must be delivered, the
\* order's quota (one per item, one more with a courier) not used up, and
\* no row of the same kind on (order, customer, the dish's chef) yet.
FileOrderComplaintCompliment(c, o, d, type) ==
    LET chef == Dishes[d].chef
    IN  /\ UNCHANGED <<orders, bids, couriers, threads, ratings>>
        /\ IF o \notin DOMAIN orders \/ orders[o].customer # c
           THEN /\ resp' = Response("file_order_complaint_compliment", 404, "order_not_found", 0, 0, 0, "none")
                /\ UNCHANGED <<customers, chefs, complaints, compliments>>
           ELSE IF orders[o].status # "delivered"
           THEN /\ resp' = Response("file_order_complaint_compliment", 400, "not_delivered", 0, 0, 0, "none")
                /\ UNCHANGED <<customers, chefs, complaints, compliments>>
           ELSE IF Cardinality(ComplaintsOnOrder(complaints, c, o))
                     + Cardinality(ComplimentsOnOrder(compliments, c, o))
                   >= Len(orders[o].items)
                      + (IF orders[o].delivery_person # NoCourier THEN 1 ELSE 0)
           THEN /\ resp' = Response("file_order_complaint_compliment", 400, "maximum_reached", 0, 0, 0, "none")
                /\ UNCHANGED <<customers, chefs, complaints, compliments>>
           ELSE IF type = "complaint"
           THEN IF \E i \in ComplaintsOnOrder(complaints, c, o) : complaints[i].chef = chef
                THEN /\ resp' = Response("file_order_complaint_compliment", 400, "already_filed", 0, 0, 0, "none")
                     /\ UNCHANGED <<customers, chefs, complaints, compliments>>
                ELSE /\ Len(complaints) < MaxComplaints
                     /\ SaveComplaint(complaints, 0,
                                      [NewComplaint(c, chef, NoCourier, "pending")
                                          EXCEPT !.order = o], TRUE)
                     /\ resp' = Response("file_order_complaint_compliment", 200, "complaint", 0, 0, o, "none")
                     /\ UNCHANGED compliments
           ELSE IF \E i \in ComplimentsOnOrder(compliments, c, o) : compliments[i].chef = chef
                THEN /\ resp' = Response("file_order_complaint_compliment", 400, "already_filed", 0, 0, 0, "none")
                     /\ UNCHANGED <<customers, chefs, complaints, compliments>>
                ELSE /\ Len(compliments) < MaxCompliments
                     /\ SaveCompliment(compliments, 0,
                                       [NewCompliment(c, chef, NoCourier, "pending")
                                           EXCEPT !.order = o], TRUE)
                     /\ resp' = Response("file_order_complaint_compliment", 200, "compliment", 0, 0, o, "none")
                     /\ UNCHANGED <<customers, complaints>>

\* A Complaint row about chef h inserted already resolved: the inline
\* trigger the receivers test for (created and status == 'resolved').  The
\* views insert rows as 'pending' and the admin cannot add rows, so such a
\* row comes from an insert through the ORM (a fixture, a shell, an import).
CreateResolvedComplaint(c, h) ==
    /\ Len(complaints) < MaxComplaints
    /\ CountsInRange(HandleEmployeeDemotion(chefs, NewComplaint(c, h, NoCourier, "resolved"), TRUE))
    /\ SaveComplaint(complaints, 0, NewComplaint(c, h, NoCourier, "resolved"), TRUE)
    /\ resp' = Response("create_resolved_complaint", 200, "success", 0, 0, 0, h)
    /\ UNCHANGED <<orders, bids, couriers, threads, compliments, ratings>>

\* A Compliment row about chef h inserted already approved.
CreateApprovedCompliment(c, h) ==
    /\ Len(compliments) < MaxCompliments
    /\ CountsInRange(HandleEmployeeBonus(chefs, NewCompliment(c, h, NoCourier, "approved"), TRUE))
    /\ SaveCompliment(compliments, 0, NewCompliment(c, h, NoCourier, "approved"), TRUE)
    /\ resp' = Response("create_approved_compliment", 200, "success", 0, 0, 0, h)
    /\ UNCHANGED <<customers, orders, bids, couriers, threads, complaints, ratings>>

\* ComplaintAdmin.investigate_complaint / resolve_complaint /
\* dismiss_complaint on one ticked row: the status is set and the row saved
\* (post_save with created = False).
SetComplaintStatus(i, status) ==
    /\ i \in DOMAIN complaints
    /\ SaveComplaint(complaints, i, [complaints[i] EXCEPT !.status = status], FALSE)
    /\ resp' = Response("set_complaint_status", 200, status, 0, 0, 0, "none")
    /\ UNCHANGED <<orders, bids, couriers, threads, compliments, ratings>>

\* ComplimentAdmin change form: the manager sets the status to approved.
ApproveCompliment(i) ==
    /\ i \in DOMAIN compliments
    /\ SaveCompliment(compliments, i, [compliments[i] EXCEPT !.status = "approved"], FALSE)
    /\ resp' = Response("approve_compliment", 200, "success", 0, 0, 0, "none")
    /\ UNCHANGED <<customers, orders, bids, couriers, threads, complaints, ratings>>

\* The DishRating rows of customer c for dish d.
DishRatingRows(rows, c, d) ==
    {i \in DOMAIN rows : rows[i].customer = c /\ rows[i].dish = d}

\* rate_dish: a dish of a delivered order of the customer; get_or_create
\* on (customer, dish), then the rating is set.
RateDish(c, o, d, rating) ==
    /\ UNCHANGED <<customers, orders, bids, couriers, threads, chefs, complaints, compliments>>
    /\ IF rating < 1 \/ rating > 5
       THEN resp' = Response("rate_dish", 400, "invalid_rating", 0, 0, 0, "none") /\ UNCHANGED ratings
       ELSE IF o \notin DOMAIN orders \/ orders[o].customer # c
       THEN resp' = Response("rate_dish", 404, "order_not_found", 0, 0, 0, "none") /\ UNCHANGED ratings
       ELSE IF orders[o].status # "delivered"
       THEN resp' = Response("rate_dish", 400, "not_delivered", 0, 0, 0, "none") /\ UNCHANGED ratings
       ELSE IF \A i \in DOMAIN orders[o].items : orders[o].items[i].dish # d
       THEN resp' = Response("rate_dish", 400, "dish_not_in_order", 0, 0, 0, "none") /\ UNCHANGED ratings
       ELSE LET found == DishRatingRows(ratings, c, d)
            IN  /\ ratings' = IF found = {} THEN Append(ratings, NewDishRating(c, d, rating))
                               ELSE [i \in DOMAIN ratings |->
                                       IF i \in found THEN [ratings[i] EXCEPT !.rating = rating]
                                       ELSE ratings[i]]
                /\ resp' = Response("rate_dish", 200, "success", 0, 0, o, "none")

\* ---------------------------------------------------- admin: chefs
\* ChefAdmin.demote_chef on one ticked chef.
DemoteChef(h) ==
    /\ chefs[h].demotion_count < MaxCount
    /\ chefs' = [chefs EXCEPT ![h].demotion_count = @ + 1]
    /\ resp' = Response("demote_chef", 200, "success", 0, 0, 0, h)
    /\ UNCHANGED <<customers, orders, bids, couriers, threads, complaints, compliments, ratings>>

\* ChefAdmin.fire_chef on one ticked chef.
FireChef(h) ==
    /\ chefs' = [chefs EXCEPT ![h].is_terminated = TRUE, ![h].is_active = FALSE]
    /\ resp' = Response("fire_chef", 200, "success", 0, 0, 0, h)
    /\ UNCHANGED <<customers, orders, bids, couriers, threads, complaints, compliments, ratings>>

\* ChefAdmin.activate_chef on one ticked chef: the reinstatement.
ActivateChef(h) ==
    /\ chefs' = [chefs EXCEPT ![h].is_active = TRUE, ![h].is_terminated = FALSE]
    /\ resp' = Response("activate_chef", 200, "success", 0, 0, 0, h)
    /\ UNCHANGED <<customers, orders, bids, couriers, threads, complaints, compliments, ratings>>

\* DeliveryPersonAdmin.fire_delivery on one ticked courier.
FireDelivery(k) ==
    /\ couriers' = [couriers EXCEPT ![k].is_terminated = TRUE, ![k].is_active = FALSE]
    /\ resp' = Response("fire_delivery", 200, "success", 0, 0, 0, k)
    /\ UNCHANGED <<customers, orders, bids, threads, reputation>>

\* ------------------------------------------- requests served in parallel
\* The server runs each request in its own thread.  No view opens a
\* transaction or locks a row, so requests interleave between database
\* statements; each statement is atomic.  A thread keeps what it read in
\* its local variables (mem, bid_snap, emps) and save() writes the whole row back.
Idle ==
    [pc |-> "idle", customer |-> "none", mem |-> LoadCustomer(NewCustomer),
     items |-> <<>>, addr_found |-> TRUE, order |-> 0,
     courier |-> "none", amount |-> 0, bid_row |-> 0, bid_snap |-> NewBid("none", 0, 0),
     chef |-> NoChef, emps |-> [h \in Chefs |-> NewChef], todo |-> <<>>,
     report |-> NoReport]

Finish(t) ==
    threads' = [threads EXCEPT ![t] = Idle]

\* create_order, customer = request.user.customer: the row is read.
CoBegin(t, c, items, addr_found) ==
    /\ UNCHANGED reputation
    /\ threads[t].pc = "idle"
    /\ threads' = [threads EXCEPT ![t] =
                     [Idle EXCEPT !.pc = "co_loaded", !.customer = c,
                                  !.mem = LoadCustomer(customers[c]),
                                  !.items = items, !.addr_found = addr_found]]
    /\ UNCHANGED <<customers, orders, bids, couriers, resp>>

\* create_order from the validation loop to Order.objects.create and the
\* OrderItem rows, on the customer record read at the start.
CoCheck(t) ==
    LET th       == threads[t]
        c        == th.customer
        mem      == th.mem
        valid    == ValidateItems(th.items, mem.is_vip)
        subtotal == Subtotal(th.items)
        totalU   == TotalAfterDiscount(subtotal, mem.is_vip)
    IN  /\ UNCHANGED reputation
        /\ th.pc = "co_loaded"
        /\ IF th.items = <<>> THEN Reject("create_order", 400, "no_items") /\ Finish(t)
           ELSE IF valid = "vip_required" THEN Reject("create_order", 403, valid) /\ Finish(t)
           ELSE IF valid # "ok" THEN Reject("create_order", 400, valid) /\ Finish(t)
           ELSE IF InsufficientFunds(totalU, mem)
           THEN /\ mem.warnings < MaxWarnings
                /\ customers' = [customers EXCEPT ![c] = SaveCustomer(WarnCustomer(mem))]
                /\ resp' = Response("create_order", 400, "insufficient_funds", 0, 0, 0, "none")
                /\ Finish(t)
                /\ UNCHANGED <<orders, bids, couriers>>
           ELSE IF ~th.addr_found
           THEN Reject("create_order", 400, "address_not_found") /\ Finish(t)
           ELSE /\ Len(orders) < MaxOrders
                /\ orders' = Append(orders, NewOrder(c, totalU, th.items))
                /\ threads' = [threads EXCEPT ![t].pc = "co_created",
                                              ![t].order = Len(orders) + 1,
                                              ![t].amount = totalU]
                /\ UNCHANGED <<customers, bids, couriers, resp>>

\* create_order: customer.deposit -= total ... customer.save()
CoSave(t) ==
    LET th  == threads[t]
        mem == DebitCustomer(th.mem, th.amount)
    IN  /\ UNCHANGED reputation
        /\ th.pc = "co_created"
        /\ customers' = [customers EXCEPT ![th.customer] = SaveCustomer(mem)]
        /\ threads' = [threads EXCEPT ![t].pc = "co_saved", ![t].mem = mem]
        /\ UNCHANGED <<orders, bids, couriers, resp>>

\* create_order: customer.check_vip_status(), which saves when it promotes,
\* and the response.
CoVip(t) ==
    LET th  == threads[t]
        mem == CheckVipStatus(th.mem)
    IN  /\ UNCHANGED reputation
        /\ th.pc = "co_saved"
        /\ customers' = IF mem.is_vip /\ (mem.total_spent >= ToU(10000) \/ mem.order_count >= 3)
                        THEN [customers EXCEPT ![th.customer] = SaveCustomer(mem)]
                        ELSE customers
        /\ resp' = Response("create_order", 200, "success", th.amount,
                            Discount(Subtotal(th.items), th.mem.is_vip), th.order, "none")
        /\ Finish(t)
        /\ UNCHANGED <<orders, bids, couriers>>

\* create_order after Order.objects.create: a later statement (an
\* OrderItem insert, customer.save()) raises.  The "except Exception"
\* clause answers 500; nothing that was written is undone.
CoFail(t) ==
    /\ UNCHANGED reputation
    /\ threads[t].pc = "co_created"
    /\ resp' = Response("create_order", 500, "order_creation_failed", 0, 0, 0, "none")
    /\ Finish(t)
    /\ UNCHANGED <<customers, orders, bids, couriers>>

\* bid_on_delivery up to the get() of get_or_create.
BidBegin(t, k, o, amountU) ==
    /\ UNCHANGED reputation
    /\ threads[t].pc = "idle"
    /\ IF amountU <= 0
       THEN Reject("bid_on_delivery", 400, "amount_not_positive") /\ UNCHANGED threads
       ELSE IF ~OpenForBids(o)
       THEN Reject("bid_on_delivery", 404, "order_not_found") /\ UNCHANGED threads
       ELSE IF ~couriers[k].is_active
       THEN Reject("bid_on_delivery", 403, "not_active") /\ UNCHANGED threads
       ELSE LET found == BidRows(bids, k, o)
            IN  IF found = {}
                THEN /\ threads' = [threads EXCEPT ![t] =
                                      [Idle EXCEPT !.pc = "bid_create", !.courier = k,
                                                   !.order = o, !.amount = amountU]]
                     /\ UNCHANGED <<customers, orders, bids, couriers, resp>>
                ELSE IF Cardinality(found) = 1
                THEN LET i == CHOOSE j \in found : TRUE
                     IN  /\ threads' = [threads EXCEPT ![t] =
                                          [Idle EXCEPT !.pc = "bid_update", !.courier = k,
                                                       !.order = o, !.amount = amountU,
                                                       !.bid_row = i, !.bid_snap = bids[i]]]
                         /\ UNCHANGED <<customers, orders, bids, couriers, resp>>
                ELSE Reject("bid_on_delivery", 500, "bidding_failed") /\ UNCHANGED threads

\* get_or_create found no row: self.create(**params).  DeliveryBid declares
\* no unique constraint, so the insert always succeeds.
BidCreate(t) ==
    LET th == threads[t]
    IN  /\ UNCHANGED reputation
        /\ th.pc = "bid_create"
        /\ Len(bids) < MaxBids
        /\ bids' = Append(bids, NewBid(th.courier, th.order, th.amount))
        /\ resp' = Response("bid_on_delivery", 200, "created", th.amount, 0, th.order, th.courier)
        /\ Finish(t)
        /\ UNCHANGED <<customers, orders, couriers>>

\* get_or_create found the row: bid.bid_amount = bid_amount; bid.save()
BidUpdate(t) ==
    LET th == threads[t]
    IN  /\ UNCHANGED reputation
        /\ th.pc = "bid_update"
        /\ bids' = [bids EXCEPT ![th.bid_row] = UpdateBid(th.bid_snap, th.amount)]
        /\ resp' = Response("bid_on_delivery", 200, "updated", th.amount, 0, th.order, th.courier)
        /\ Finish(t)
        /\ UNCHANGED <<customers, orders, couriers>>

\* The order in which the sweep's queryset yields the chefs (Chef.Meta
\* ordering = ['-created_at']: carla is the newer row).
ChefOrder == <<"carla", "marco">>

IsActiveIn(rows, h) == rows[h].is_active

\* update_chefs: "for chef in Chef.objects.filter(is_active=True)" loads
\* the active Chef rows when the loop starts.
SweepBegin(t) ==
    /\ threads[t].pc = "idle"
    /\ threads' = [threads EXCEPT ![t] =
                     [Idle EXCEPT !.pc = "sweep_loaded", !.emps = chefs,
                                  !.todo = SelectSeq(ChefOrder, LAMBDA h : IsActiveIn(chefs, h))]]
    /\ UNCHANGED <<customers, orders, bids, couriers, resp, reputation>>

\* The Chef object the sweep loaded for the chef whose turn it is, after
\* the body of the loop of update_chefs.
SweepRow(t) ==
    LET h == Head(threads[t].todo)
    IN  UpdateEmployee(threads[t].emps[h], ResolvedComplaints(complaints, h),
                       ApprovedCompliments(compliments, h), ChefRatings(ratings, h))

\* One turn of the loop of update_chefs: the counts are queried now, the
\* Chef object loaded at the start is changed and saved.  The two save()
\* calls of the firing branch follow each other on the same object and are
\* taken as one write.
SweepChef(t) ==
    LET th    == threads[t]
        h     == Head(th.todo)
        after == SweepRow(t)
    IN  /\ th.pc = "sweep_loaded"
        /\ th.todo # <<>>
        /\ after.demotion_count <= MaxCount /\ after.bonus_count <= MaxCount
        /\ chefs' = IF after = th.emps[h] THEN chefs ELSE [chefs EXCEPT ![h] = after]
        /\ threads' = [threads EXCEPT
                         ![t].todo = Tail(th.todo), ![t].chef = h,
                         ![t].report[h] =
                             ChangesMade(th.emps[h], ResolvedComplaints(complaints, h),
                                         ApprovedCompliments(compliments, h),
                                         ChefRatings(ratings, h), FALSE)]
        /\ UNCHANGED <<customers, orders, bids, couriers, resp, complaints, compliments, ratings>>

\* The loop of update_chefs is over: update_delivery_persons, and the
\* command ends.
SweepEnd(t) ==
    /\ threads[t].pc = "sweep_loaded"
    /\ threads[t].todo = <<>>
    /\ CountsInRange(UpdateDeliveryPersons(couriers))
    /\ couriers' = UpdateDeliveryPersons(couriers)
    /\ resp' = [Response("update_employee_status", 200, "applied", 0, 0, 0, "none")
                    EXCEPT !.report = [e \in Chefs \cup Couriers |->
                                         IF e \in Chefs THEN threads[t].report[e]
                                         ELSE SweepReport(FALSE)[e]]]
    /\ Finish(t)
    /\ UNCHANGED <<customers, orders, bids, reputation>>

\* demote_chef: "for chef in queryset" loads the ticked row.
DemoteBegin(t, h) ==
    /\ threads[t].pc = "idle"
    /\ threads' = [threads EXCEPT ![t] =
                     [Idle EXCEPT !.pc = "demote_loaded", !.chef = h, !.emps = chefs]]
    /\ UNCHANGED <<customers, orders, bids, couriers, resp, reputation>>

\* demote_chef: chef.demotion_count += 1 ... chef.save()
DemoteSave(t) ==
    LET th == threads[t]
        h  == th.chef
    IN  /\ th.pc = "demote_loaded"
        /\ th.emps[h].demotion_count < MaxCount
        /\ chefs' = [chefs EXCEPT ![h] = [th.emps[h] EXCEPT !.demotion_count = @ + 1]]
        /\ resp' = Response("demote_chef", 200, "success", 0, 0, 0, h)
        /\ Finish(t)
        /\ UNCHANGED <<customers, orders, bids, couriers, complaints, compliments, ratings>>

\* ------------------------------------------------------------ system
Init ==
    /\ customers = [c \in Customers |-> NewCustomer]
    /\ orders = <<>>
    /\ bids = <<>>
    /\ couriers = [k \in Couriers |-> NewDeliveryPerson]
    /\ threads = [t \in Threads |-> Idle]
    /\ resp = Response("none", 0, "none", 0, 0, 0, "none")
    /\ chefs = [h \in Chefs |-> NewChef]
    /\ complaints = <<>>
    /\ compliments = <<>>
    /\ ratings = <<>>

\* The ledger: deposits, orders and cancellations, each request served
\* to completion before the next.
Next ==
    \/ \E c \in Customers, a \in DepositAmountsU : AddDeposit(c, a)
    \/ \E c \in Customers, items \in Requests, f \in BOOLEAN : CreateOrder(c, items, f)
    \/ \E c \in Customers, o \in 1..(MaxOrders + 1) : CancelOrder(c, o)
    \/ \E c \in Customers : GrantVipStatus(c)

Spec == Init /\ [][Next]_vars

\* The order lifecycle: a customer who tops up by 50.00 when the balance is
\* below 30.00 and orders one dish at a time, the manager's bulk status
\* actions on one order or on all of them, a chef's status links.
LifecycleRequests ==
    { <<Item("noodles", 1)>> }

NextLifecycle ==
    \/ \E c \in Customers : customers[c].deposit < 3000 /\ AddDeposit(c, 500000)
    \/ \E c \in Customers, items \in LifecycleRequests : CreateOrder(c, items, TRUE)
    \/ \E c \in Customers, o \in 1..(MaxOrders + 1) : CancelOrder(c, o)
    \/ \E Q \in {{o} : o \in DOMAIN orders} \cup {DOMAIN orders}, s \in STATUS_CHOICES :
            SetStatus(Q, s)
    \/ \E chef \in Chefs, o \in 1..(MaxOrders + 1), s \in {"confirmed", "ready"} :
            ChefChangeStatus(chef, o, s)

SpecLifecycle == Init /\ [][NextLifecycle]_vars

\* Refunds: the customer pays in 50.00 once, before the first order, then
\* orders noodles and cancels; the manager sets an order back to pending or
\* confirms it.
PaidIn == 5000

NextRefund ==
    \/ \E c \in Customers :
            customers[c].deposit = 0 /\ orders = <<>> /\ AddDeposit(c, ToU(PaidIn))
    \/ \E c \in Customers : CreateOrder(c, <<Item("noodles", 1)>>, TRUE)
    \/ \E c \in Customers, o \in 1..MaxOrders : CancelOrder(c, o)
    \/ \E o \in DOMAIN orders, s \in {"pending", "confirmed"} : SetStatus({o}, s)

SpecRefund == Init /\ [][NextRefund]_vars

\* Two create_order requests of one customer in flight at once.
\* The customer tops up by 50.00 when the balance is below 30.00 and no
\* request is in flight, so the only concurrency is between create_order calls.
ConcRequests ==
    { <<Item("noodles", 1)>>, <<Item("special", 1)>> }

NextConc ==
    \/ \E c \in Customers :
            /\ customers[c].deposit < 3000
            /\ \A t \in Threads : threads[t].pc = "idle"
            /\ AddDeposit(c, 500000)
    \/ \E t \in Threads, c \in Customers, items \in ConcRequests, f \in BOOLEAN :
            CoBegin(t, c, items, f)
    \/ \E t \in Threads : CoCheck(t)
    \/ \E t \in Threads : CoSave(t)
    \/ \E t \in Threads : CoVip(t)

SpecConc == Init /\ [][NextConc]_vars

\* The same requests, any of which may hit an exception after its Order row
\* was written.
NextAtomic ==
    \/ NextConc
    \/ \E t \in Threads : CoFail(t)

SpecAtomic == Init /\ [][NextAtomic]_vars

\* The same requests while the manager blacklists and approves customers.
NextSticky ==
    \/ NextConc
    \/ \E c \in Customers : BlacklistCustomer(c)
    \/ \E c \in Customers : ApproveRegistration(c)

SpecSticky == Init /\ [][NextSticky]_vars

\* Bids on one confirmed order, two bid_on_delivery requests in flight at once.
NextBids ==
    \/ \E c \in Customers : customers[c].deposit < 3000 /\ AddDeposit(c, 500000)
    \/ \E c \in Customers : orders = <<>> /\ CreateOrder(c, <<Item("noodles", 1)>>, TRUE)
    \/ SetStatus({1}, "confirmed")
    \/ DeactivateDelivery("eve")
    \/ ActivateDelivery("eve")
    \/ \E t \in Threads, k \in {"dan", "eve"}, o \in 1..2, a \in BidAmountsU :
            BidBegin(t, k, o, a)
    \/ \E t \in Threads : BidCreate(t)
    \/ \E t \in Threads : BidUpdate(t)

SpecBids == Init /\ [][NextBids]_vars

\* Bid selection on one order: the order is paid from a 50.00 top-up and
\* confirmed by the manager, the couriers bid one request at a time, the
\* manager runs the three bid actions on any ticked rows and may assign a
\* courier on the order form.
NextSelect ==
    \/ \E c \in Customers : customers[c].deposit = 0 /\ orders = <<>> /\ AddDeposit(c, 500000)
    \/ \E c \in Customers :
            /\ orders = <<>>
            /\ customers[c].deposit >= 3000
            /\ CreateOrder(c, <<Item("noodles", 1)>>, TRUE)
    \/ \E o \in DOMAIN orders : orders[o].status = "pending" /\ SetStatus({o}, "confirmed")
    \/ \E k \in Couriers, o \in 1..2, a \in BidAmountsU : BidOnDelivery(k, o, a)
    \/ \E Q \in SUBSET (DOMAIN bids) : AutoSelectLowestBid(Q)
    \/ \E Q \in SUBSET (DOMAIN bids) : SelectBids(Q)
    \/ \E Q \in SUBSET (DOMAIN bids) : DeselectBids(Q)
    \/ \E o \in DOMAIN orders :
            orders[o].delivery_person = NoCourier /\ AssignCourier(o, "fay")

SpecSelect == Init /\ [][NextSelect]_vars

\* Employee reputation: one delivered order of noodles (chef carla), about
\* which the customer files complaints and a compliment and rates the dish;
\* the manager handles them, demotes and fires carla; rows
\* arrive already resolved or approved; the sweep and the rating check run.
NextStaff ==
    \/ \E c \in Customers : customers[c].deposit = 0 /\ orders = <<>> /\ AddDeposit(c, 500000)
    \/ \E c \in Customers :
            /\ orders = <<>>
            /\ customers[c].deposit >= 3000
            /\ CreateOrder(c, <<Item("noodles", 1)>>, TRUE)
    \/ \E o \in DOMAIN orders : orders[o].status = "pending" /\ SetStatus({o}, "delivered")
    \/ \E c \in Customers, o \in 1..2, type \in {"complaint", "compliment"} :
            FileComplaintCompliment(c, o, type)
    \/ \E c \in Customers : CreateResolvedComplaint(c, "carla")
    \/ \E c \in Customers : CreateApprovedCompliment(c, "carla")
    \/ \E i \in DOMAIN complaints :
            complaints[i].status = "pending" /\ SetComplaintStatus(i, "resolved")
    \/ \E i \in DOMAIN compliments : compliments[i].status = "pending" /\ ApproveCompliment(i)
    \/ \E c \in Customers, r \in {1, 5} : RateDish(c, 1, "noodles", r)
    \/ DemoteChef("carla")
    \/ FireChef("carla")
    \/ \E dry_run \in BOOLEAN : UpdateEmployeeStatus(dry_run)
    \/ CheckEmployeeRatings

SpecStaff == Init /\ [][NextStaff]_vars

\* One run of the batch sweep at a time (thread t1) and the manager's
\* demote_chef requests on carla (thread t2) in flight at once, while
\* resolved complaints about carla arrive and the manager reinstates her.
NextStaffConc ==
    \/ SweepBegin("t1")
    \/ \E t \in Threads : SweepChef(t)
    \/ \E t \in Threads : SweepEnd(t)
    \/ DemoteBegin("t2", "carla")
    \/ \E t \in Threads : DemoteSave(t)
    \/ \E c \in Customers : CreateResolvedComplaint(c, "carla")
    \/ ActivateChef("carla")

SpecStaffConc == Init /\ [][NextStaffConc]_vars

\* Eligibility of fired employees: the manager fires and reinstates chef
\* carla and courier dan; the customer tops up by 50.00 when the balance is
\* below 30.00 and orders one dish of carla's; the manager confirms a
\* pending order; couriers dan and eve bid 9.50.
NextEligibility ==
    \/ \E c \in Customers : customers[c].deposit < 3000 /\ AddDeposit(c, 500000)
    \/ \E c \in Customers, d \in {"noodles", "soup"} : CreateOrder(c, <<Item(d, 1)>>, TRUE)
    \/ \E o \in DOMAIN orders : orders[o].status = "pending" /\ SetStatus({o}, "confirmed")
    \/ FireChef("carla")
    \/ ActivateChef("carla")
    \/ FireDelivery("dan")
    \/ ActivateDelivery("dan")
    \/ \E k \in {"dan", "eve"}, o \in 1..2 : BidOnDelivery(k, o, 95000)

SpecEligibility == Init /\ [][NextEligibility]_vars

\* VIP promotion: the customer tops up by 150.00 once, orders noodles once
\* or three times over (30.00, 90.00), files complaints and compliments
\* about the orders; the manager investigates, resolves and dismisses the
\* complaints.
NextVip ==
    \/ \E c \in Customers : customers[c].deposit = 0 /\ orders = <<>> /\ AddDeposit(c, 1500000)
    \/ \E c \in Customers, q \in {1, 3} : CreateOrder(c, <<Item("noodles", q)>>, TRUE)
    \/ \E c \in Customers, o \in 1..2, type \in {"complaint", "compliment"} :
            FileComplaintCompliment(c, o, type)
    \/ \E i \in DOMAIN complaints, s \in {"investigating", "resolved", "dismissed"} :
            SetComplaintStatus(i, s)

SpecVip == Init /\ [][NextVip]_vars

\* Complaints and the customer's standing: the customer tops up by 50.00
\* once and orders noodles (warned when the balance does not cover it),
\* files complaints about a customer, herself included; complaints arrive
\* already resolved; the manager investigates and resolves complaints,
\* saves a resolved one again, grants VIP status, edits the warnings,
\* blacklists and approves.
NextStanding ==
    \/ \E c \in Customers : customers[c].deposit = 0 /\ orders = <<>> /\ AddDeposit(c, 500000)
    \/ \E c \in Customers : orders = <<>> /\ CreateOrder(c, <<Item("noodles", 1)>>, TRUE)
    \/ \E c \in Customers, o \in 1..2, x \in Customers : FileComplaintAboutCustomer(c, o, x)
    \/ \E c \in Customers : CreateResolvedComplaint(c, "carla")
    \/ \E i \in DOMAIN complaints, s \in {"investigating", "resolved"} : SetComplaintStatus(i, s)
    \/ \E c \in Customers : GrantVipStatus(c)
    \/ \E c \in Customers, n \in {0, MaxWarnings + 1} : SetWarnings(c, n)
    \/ \E c \in Customers : BlacklistCustomer(c)
    \/ \E c \in Customers : ApproveRegistration(c)

SpecStanding == Init /\ [][NextStanding]_vars

\* Filing: the customer tops up by 150.00 once, places up to two orders
\* (noodles; noodles and soup), the manager marks orders delivered, and the
\* customer files complaints and compliments through both endpoints.
NextFiling ==
    \/ \E c \in Customers : customers[c].deposit = 0 /\ orders = <<>> /\ AddDeposit(c, 1500000)
    \/ \E c \in Customers, items \in {<<Item("noodles", 1)>>, <<Item("noodles", 1), Item("soup", 1)>>} :
            customers[c].deposit >= 5000 /\ CreateOrder(c, items, TRUE)
    \/ \E o \in DOMAIN orders : orders[o].status = "pending" /\ SetStatus({o}, "delivered")
    \/ \E c \in Customers, o \in 1..2, type \in {"complaint", "compliment"} :
            FileComplaintCompliment(c, o, type)
    \/ \E c \in Customers, o \in 1..2, d \in {"noodles", "lobster"}, type \in {"complaint", "compliment"} :
            FileOrderComplaintCompliment(c, o, d, type)

SpecFiling == Init /\ [][NextFiling]_vars

\* =============================================================== claims
\* What create_order computes for customer c and a request, from the
\* customer's row as it stands.
RequestValid(c, items) ==
    items # <<>> /\ ValidateItems(items, customers[c].is_vip) = "ok"

RequestTotalU(c, items) ==
    TotalAfterDiscount(Subtotal(items), customers[c].is_vip)

\* C1: with requests served one after the other (add_deposit, create_order,
\* cancel_order, and the manager granting VIP), every customer's deposit is
\* >= 0 in every reachable state, and a create_order whose total exceeds
\* the current deposit leaves the deposit as it was.
C1_DepositNeverNegative ==
    [][ \A c \in Customers :
          /\ customers'[c].deposit >= 0
          /\ \/ customers'[c].deposit = customers[c].deposit
             \/ \A items \in Requests, f \in BOOLEAN :
                   ~ ( /\ RequestValid(c, items)
                       /\ RequestTotalU(c, items) > ToU(customers[c].deposit)
                       /\ CreateOrder(c, items, f) ) ]_vars

\* C1 witness: a create_order was refused for insufficient funds while the
\* customer still held a balance left over after an earlier accepted order.
C1_Witness ==
    /\ resp.op = "create_order" /\ resp.detail = "insufficient_funds"
    /\ \E c \in Customers :
          /\ customers[c].deposit > 0
          /\ \E o \in DOMAIN orders : orders[o].customer = c /\ orders[o].status = "pending"

\* The sum over an order's OrderItem rows of price x quantity, in cents.
RECURSIVE ItemsTotal(_)
ItemsTotal(rows) ==
    IF rows = <<>> THEN 0
    ELSE Head(rows).price * Head(rows).quantity + ItemsTotal(Tail(rows))

\* C3 (as claimed): every stored order satisfies
\* total_amount = sum(item.price x item.quantity) - vip_discount, with
\* vip_discount the value stored on the Order row.
C3_TotalIsItemsMinusDiscount ==
    \A o \in DOMAIN orders :
        orders[o].total_amount = ItemsTotal(orders[o].items) - orders[o].vip_discount

\* round(subtotal x 0.05, 2), in cents.
RoundedDiscount(subtotal) ==
    QuantizeCents(subtotal * 5)

\* C4 (as claimed): an accepted create_order computes
\* vipDiscount = round(subtotal x 0.05, 2) if the customer is VIP at that
\* moment and 0 otherwise - on the Order row and in the response -, stores
\* total_amount = subtotal - vipDiscount, and removes exactly the stored
\* total_amount from the deposit.
C4_DiscountAndDebit ==
    [][ (resp'.op = "create_order" /\ resp'.detail = "success") =>
        \A c \in Customers, items \in Requests :
            CreateOrder(c, items, TRUE) =>
                LET order == orders'[Len(orders')]
                    vd    == IF customers[c].is_vip THEN RoundedDiscount(Subtotal(items)) ELSE 0
                IN  /\ order.vip_discount = vd
                    /\ resp'.discount_amount = ToU(vd)
                    /\ order.total_amount = Subtotal(items) - vd
                    /\ customers[c].deposit - customers'[c].deposit = order.total_amount ]_vars

\* C5: a valid create_order whose total exceeds the deposit is refused with
\* "insufficient funds" (HTTP 400); warnings grows by exactly 1, no Order
\* or OrderItem row is written, and deposit, total_spent, order_count and
\* is_vip keep their values.
C5_InsufficientFundsWarns ==
    [][ resp'.op = "create_order" =>
        \A c \in Customers, items \in Requests, f \in BOOLEAN :
            ( /\ RequestValid(c, items)
              /\ RequestTotalU(c, items) > ToU(customers[c].deposit)
              /\ CreateOrder(c, items, f) )
            => /\ resp'.code = 400 /\ resp'.detail = "insufficient_funds"
               /\ customers'[c].warnings = customers[c].warnings + 1
               /\ orders' = orders
               /\ customers'[c].deposit = customers[c].deposit
               /\ customers'[c].total_spent = customers[c].total_spent
               /\ customers'[c].order_count = customers[c].order_count
               /\ customers'[c].is_vip = customers[c].is_vip ]_vars

\* C5 witness: the example - deposit 50.00, two lines totalling 60.00,
\* refused with one warning and no order.
C5_Witness ==
    /\ resp.op = "create_order" /\ resp.detail = "insufficient_funds"
    /\ customers["alice"].deposit = 5000
    /\ customers["alice"].warnings = 1
    /\ orders = <<>>

\* The request names a dish that is unavailable, or VIP-only while the
\* customer is not VIP.
HasBarredDish(c, items) ==
    \E i \in DOMAIN items :
        \/ ~Dishes[items[i].dish_id].is_available
        \/ Dishes[items[i].dish_id].is_vip_only /\ ~customers[c].is_vip

\* C6: a create_order naming an unavailable dish, or a VIP-only dish for a
\* customer who is not VIP, is refused and changes no row: no order, and
\* the customer's deposit, warnings, total_spent and order_count are as
\* before - also when the requested total exceeds the deposit.
C6_BarredDishRejectedUnchanged ==
    [][ resp'.op = "create_order" =>
        \A c \in Customers, items \in Requests, f \in BOOLEAN :
            (HasBarredDish(c, items) /\ CreateOrder(c, items, f))
            => /\ resp'.code \in {400, 403}
               /\ resp'.detail \in {"dish_unavailable", "vip_required", "invalid_quantity"}
               /\ orders' = orders
               /\ customers' = customers ]_vars

\* C6 witness: such a request was refused while the customer held nothing,
\* so that its total exceeded the deposit, and no warning was given.
C6_Witness ==
    /\ resp.op = "create_order"
    /\ resp.detail \in {"dish_unavailable", "vip_required"}
    /\ customers["alice"].deposit = 0
    /\ customers["alice"].warnings = 0
    /\ orders = <<>>

\* C7: cancel_order on the customer's own order in any status other than
\* pending is refused (HTTP 400) and changes nothing: the order rows and the
\* customer rows are as before.
C7_CancelNonPendingRejected ==
    [][ resp'.op = "cancel_order" =>
        \A c \in Customers, o \in DOMAIN orders :
            ( /\ orders[o].customer = c
              /\ orders[o].status # "pending"
              /\ CancelOrder(c, o) )
            => /\ resp'.code = 400 /\ resp'.detail = "not_pending"
               /\ orders' = orders
               /\ customers' = customers ]_vars

\* C7 witness: a cancellation was refused while the customer had an order
\* in each status past pending that the manager can set.
C7_Witness ==
    /\ resp.op = "cancel_order" /\ resp.detail = "not_pending"
    /\ \E o \in DOMAIN orders : orders[o].status = "confirmed"
    /\ \E o \in DOMAIN orders : orders[o].status = "delivered"

\* C8: an accepted cancel_order of a pending order adds exactly the order's
\* total_amount to the deposit, lowers order_count by one but not below 0,
\* and leaves the order cancelled.
C8_CancelPendingRefunds ==
    [][ resp'.op = "cancel_order" =>
        \A c \in Customers, o \in DOMAIN orders :
            ( /\ orders[o].customer = c
              /\ orders[o].status = "pending"
              /\ CancelOrder(c, o) )
            => /\ resp'.detail = "success"
               /\ customers'[c].deposit = customers[c].deposit + orders[o].total_amount
               /\ customers'[c].order_count =
                      (IF customers[c].order_count > 0 THEN customers[c].order_count - 1 ELSE 0)
               /\ orders'[o].status = "cancelled" ]_vars

\* C8 witness: a cancellation was accepted when the order count had
\* already reached 0 (the order had been cancelled before and set back to
\* pending), and the order is cancelled.
C8_Witness ==
    /\ resp.op = "cancel_order" /\ resp.detail = "success"
    /\ orders[resp.order].status = "cancelled"
    /\ Len(orders) = 1
    /\ customers["alice"].order_count = 0
    /\ customers["alice"].deposit = 5000 + orders[1].total_amount

\* The status sequence of the specification.
LegalNextStatus(s) ==
    CASE s = "pending"          -> {"confirmed", "cancelled"}
      [] s = "confirmed"        -> {"preparing"}
      [] s = "preparing"        -> {"ready"}
      [] s = "ready"            -> {"out_for_delivery"}
      [] s = "out_for_delivery" -> {"delivered"}
      [] OTHER                  -> {}

\* C9 (as claimed): every change of an order's status is one step along
\* pending -> confirmed -> preparing -> ready -> out_for_delivery ->
\* delivered, or pending -> cancelled.
C9_StatusOnlyAdvances ==
    [][ \A o \in DOMAIN orders :
          \/ orders'[o].status = orders[o].status
          \/ orders'[o].status \in LegalNextStatus(orders[o].status) ]_vars

\* The totals of the orders of customer c that passed the balance check
\* and whose debit is not saved yet.
RECURSIVE UncommittedTotalU(_, _)
UncommittedTotalU(c, T) ==
    IF T = {} THEN 0
    ELSE LET t == CHOOSE u \in T : TRUE
         IN  (IF threads[t].pc = "co_created" /\ threads[t].customer = c
              THEN threads[t].amount ELSE 0) + UncommittedTotalU(c, T \ {t})

\* C2 (as claimed): for concurrent create_order calls of one customer the
\* balance check and the debit are one atomic step: no two calls are both
\* past the check with their debits unsaved, the orders accepted and not
\* yet debited never exceed the deposit together, and every debit lowers
\* the stored deposit by the order's total (none is lost).
C2_AtomicCheckAndDebit ==
    [][ /\ \A t, u \in Threads :
              (t # u /\ threads'[t].customer = threads'[u].customer)
              => ~(threads'[t].pc = "co_created" /\ threads'[u].pc = "co_created")
        /\ \A c \in Customers : (UncommittedTotalU(c, Threads) <= ToU(customers[c].deposit))'
        /\ \A t \in Threads :
              CoSave(t) =>
                  customers'[threads[t].customer].deposit =
                      customers[threads[t].customer].deposit - orders[threads[t].order].total_amount
      ]_vars

\* C10 (as claimed): whatever the order and interleaving of bid_on_delivery
\* calls, there is at most one DeliveryBid row per (courier, order), and
\* after an accepted bid the courier's row for that order holds the amount
\* just bid.
C10_OneBidRowPerPair ==
    /\ \A k \in Couriers, o \in DOMAIN orders : Cardinality(BidRows(bids, k, o)) <= 1
    /\ (resp.op = "bid_on_delivery" /\ resp.code = 200) =>
           \A i \in BidRows(bids, resp.who, resp.order) :
               bids[i].bid_amount = QuantizeCents(resp.amount)

\* The selected bids of order o.
SelectedBids(rows, o) ==
    {i \in DOMAIN rows : rows[i].order = o /\ rows[i].is_selected}

\* C11 (as claimed): after any sequence of bids, auto-selections on any
\* ticked rows, manual selections and deselections, every order has at most
\* one bid with is_selected = TRUE.
C11_AtMostOneSelectedBid ==
    \A o \in DOMAIN orders : Cardinality(SelectedBids(bids, o)) <= 1

\* All bid rows of order o.
AllOrderBids(rows, o) ==
    {i \in DOMAIN rows : rows[i].order = o}

\* C12 (as claimed): an auto-selection marks, for every order it handles,
\* exactly the bid with the smallest bid_amount among all bids that exist
\* for that order, the earliest created_at deciding ties.
C12_AutoSelectPicksLowest ==
    [][ resp'.op = "auto_select_lowest_bid" =>
          \A Q \in SUBSET (DOMAIN bids) :
              AutoSelectLowestBid(Q) =>
                  \A q \in Q :
                      LET o == bids[q].order
                      IN  {i \in OrderBids(bids, Q, o) : bids'[i].is_selected}
                              = {LowestBid(bids, AllOrderBids(bids, o))}
      ]_vars

\* C13 (as claimed): after an auto-selection, for every order it handles
\* the winner is the only selected bid of the order (every bid selected
\* before is deselected), the winner carries a justification, and the
\* order's delivery_person is the winner's courier.
C13_AutoSelectAssignsWinner ==
    [][ resp'.op = "auto_select_lowest_bid" =>
          \A Q \in SUBSET (DOMAIN bids) :
              AutoSelectLowestBid(Q) =>
                  \A q \in Q :
                      LET o == bids[q].order
                          w == LowestBid(bids, OrderBids(bids, Q, o))
                      IN  /\ SelectedBids(bids', o) = {w}
                          /\ bids'[w].justification # ""
                          /\ orders'[o].delivery_person = bids'[w].delivery_person
      ]_vars

\* C14 (as claimed): bid_on_delivery is accepted only for an order that is
\* confirmed and has no delivery_person assigned; in every other case it
\* is refused and the DeliveryBid rows stay as they were.
C14_BidOnlyOnOpenOrder ==
    [][ resp'.op = "bid_on_delivery" =>
          \A k \in Couriers, o \in 1..2, a \in BidAmountsU :
              BidOnDelivery(k, o, a) =>
                  \/ OpenForBids(o) /\ orders[o].delivery_person = NoCourier
                  \/ resp'.code # 200 /\ bids' = bids
      ]_vars

\* netComplaints = max(0, resolved complaints - approved compliments) >= 3,
\* or the average rating (0 when there is none) is below 2.
DemotionDue(h) ==
    LET n == ResolvedComplaints(complaints, h) - ApprovedCompliments(compliments, h)
        S == ChefRatings(ratings, h)
    IN  n >= 3 \/ S = {} \/ AvgBelowTwo(ratings, S)

\* C15 (as claimed, for the evaluations the batch sweep makes): when the
\* sweep evaluates an active employee, demotion_count goes up by exactly one
\* if netComplaints >= 3 or the average rating is below 2 and stays as it
\* was otherwise, and a demotion that brings the count to 2 or more leaves
\* the employee with is_active = FALSE and is_terminated = TRUE.
C15_EvaluationDemotesAndTerminates ==
    [][ (resp'.op = "update_employee_status" /\ resp'.detail = "applied") =>
          \A h \in Chefs :
              chefs[h].is_active =>
                  /\ chefs'[h].demotion_count =
                         chefs[h].demotion_count + (IF DemotionDue(h) THEN 1 ELSE 0)
                  /\ (DemotionDue(h) /\ chefs'[h].demotion_count >= 2) =>
                         (~chefs'[h].is_active /\ chefs'[h].is_terminated)
      ]_vars

\* C16 (as claimed): a batch sweep that runs right after an applied batch
\* sweep - no complaint, compliment or rating has arrived in between -
\* leaves every employee's demotion_count, bonus_count and is_active as
\* they were.
C16_SecondSweepChangesNothing ==
    [][ ( /\ resp.op = "update_employee_status" /\ resp.detail = "applied"
          /\ resp'.op = "update_employee_status" )
        => /\ \A h \in Chefs :
                 /\ chefs'[h].demotion_count = chefs[h].demotion_count
                 /\ chefs'[h].bonus_count = chefs[h].bonus_count
                 /\ chefs'[h].is_active = chefs[h].is_active
           /\ \A k \in Couriers :
                 /\ couriers'[k].demotion_count = couriers[k].demotion_count
                 /\ couriers'[k].bonus_count = couriers[k].bonus_count
                 /\ couriers'[k].is_active = couriers[k].is_active
      ]_vars

Terminated(row) ==
    row.is_terminated /\ ~row.is_active

\* C18 (as claimed): an employee who is terminated (is_terminated, not
\* is_active) keeps demotion_count, bonus_count, is_active and is_terminated
\* through every step that is not an action of the manager on that
\* employee: through the inline complaint and compliment triggers, the
\* batch sweep and the rating check.
C18_TerminatedIsFrozen ==
    [][ \A h \in Chefs :
          ( /\ Terminated(chefs[h])
            /\ resp'.op \notin {"activate_chef", "demote_chef", "fire_chef"} )
          => chefs'[h] = chefs[h]
      ]_vars

\* C19 (as claimed): a bid_on_delivery request of a terminated courier is
\* rejected and leaves the bids as they were, and an order accepted by
\* create_order has no item whose dish belongs to a terminated chef.
C19_TerminatedNotEligible ==
    [][ /\ resp'.op = "bid_on_delivery" =>
              \A k \in Couriers, o \in 1..2 :
                  (Terminated(couriers[k]) /\ BidOnDelivery(k, o, 95000)) =>
                      (resp'.code # 200 /\ bids' = bids)
        /\ (resp'.op = "create_order" /\ resp'.code = 200) =>
              \A i \in DOMAIN orders'[resp'.order].items :
                  ~Terminated(chefs[Dishes[orders'[resp'.order].items[i].dish].chef])
      ]_vars

\* Complaint rows filed by customer c that are pending or investigating.
UnresolvedComplaints(rows, c) ==
    {i \in DOMAIN rows : rows[i].complainant = c
                          /\ rows[i].status \in {"pending", "investigating"}}

\* C20 (as claimed): a step of the engine (any step but the manager's
\* grant_vip_status) turns a customer's is_vip from FALSE to TRUE only when
\* total_spent >= 100.00 or order_count >= 3, and the customer has no
\* complaint of their own that is pending or investigating.
C20_VipNeedsNoOpenComplaint ==
    [][ \A c \in Customers :
          ( /\ ~customers[c].is_vip
            /\ customers'[c].is_vip
            /\ resp'.op # "grant_vip_status" )
          => /\ customers'[c].total_spent >= 10000 \/ customers'[c].order_count >= 3
             /\ UnresolvedComplaints(complaints, c) = {}
      ]_vars

\* C17 (as claimed): increments of an employee's counters are atomic
\* read-modify-write: whenever a request in flight saves an increment - the
\* manager's demotion, or a turn of the sweep that demotes or rewards -
\* the stored counter goes up by exactly the increment, whatever other
\* requests did since this one read the row (no update is lost).
C17_CounterIncrementsAtomic ==
    [][ \A t \in Threads :
          /\ (threads[t].pc = "demote_loaded" /\ threads'[t].pc = "idle") =>
                chefs'[threads[t].chef].demotion_count =
                    chefs[threads[t].chef].demotion_count + 1
          /\ (threads[t].pc = "sweep_loaded" /\ threads'[t].todo # threads[t].todo) =>
                LET h == Head(threads[t].todo)
                IN  /\ chefs'[h].demotion_count - chefs[h].demotion_count =
                           SweepRow(t).demotion_count - threads[t].emps[h].demotion_count
                    /\ chefs'[h].bonus_count - chefs[h].bonus_count =
                           SweepRow(t).bonus_count - threads[t].emps[h].bonus_count
      ]_vars

\* Complaint row i has status resolved after the step and did not before
\* (it was in another status, or did not exist).
ReachesResolved(i) ==
    /\ i \in DOMAIN complaints'
    /\ complaints'[i].status = "resolved"
    /\ i \in DOMAIN complaints => complaints[i].status # "resolved"

\* C21 (as claimed): when a complaint about a customer reaches status
\* resolved - the manager's resolve action on a pending or investigating
\* complaint included - while that customer is VIP with 2 <= warnings < 3,
\* the customer is regular afterwards and has 0 warnings.
C21_ResolvedDowngradesVip ==
    [][ \A i \in DOMAIN complaints' :
          ( /\ ReachesResolved(i)
            /\ complaints'[i].customer # NoCustomer
            /\ customers[complaints'[i].customer].is_vip
            /\ customers[complaints'[i].customer].warnings >= 2
            /\ customers[complaints'[i].customer].warnings < 3 )
          => /\ ~customers'[complaints'[i].customer].is_vip
             /\ customers'[complaints'[i].customer].warnings = 0
      ]_vars

\* C22 (as claimed): when a complaint about a customer reaches status
\* resolved while that customer has 3 or more warnings, the customer is
\* blacklisted afterwards and keeps is_vip and warnings (the blacklisting
\* rule wins over the downgrade); and saving a complaint that is already
\* resolved changes no customer.
C22_ResolvedBlacklists ==
    [][ /\ \A i \in DOMAIN complaints' :
              ( /\ ReachesResolved(i)
                /\ complaints'[i].customer # NoCustomer
                /\ customers[complaints'[i].customer].warnings >= 3 )
              => /\ customers'[complaints'[i].customer].is_blacklisted
                 /\ customers'[complaints'[i].customer].is_vip =
                        customers[complaints'[i].customer].is_vip
                 /\ customers'[complaints'[i].customer].warnings =
                        customers[complaints'[i].customer].warnings
        /\ ( /\ resp'.op = "set_complaint_status"
             /\ \A i \in DOMAIN complaints' : ~ReachesResolved(i) )
           => customers' = customers
      ]_vars

\* C23 (as claimed): create_order is all-or-nothing: a request that ends
\* in an error has left no Order row behind, and a request that has left
\* an Order row behind has debited the customer for it.
C23_CreateOrderAllOrNothing ==
    [][ \A t \in Threads :
          ( /\ threads[t].pc \in {"co_loaded", "co_created", "co_saved"}
            /\ threads'[t].pc = "idle"
            /\ resp'.code # 200 )
          => threads[t].order = 0
      ]_vars

\* The (complainant, order, target) of a complaint or compliment row; the
\* target is the chef, the courier or the customer it is about.
FilingKey(row, by) ==
    <<by, row.order, row.chef, row.delivery_person, row.customer>>

\* C24 (as claimed): whatever is filed through file_complaint_compliment and
\* file_order_complaint_compliment, no two complaints share their
\* (complainant, order, target), and no two compliments do.
C24_OneFilingPerTriple ==
    /\ \A i, j \in DOMAIN complaints :
          i # j => FilingKey(complaints[i], complaints[i].complainant)
                     # FilingKey(complaints[j], complaints[j].complainant)
    /\ \A i, j \in DOMAIN compliments :
          i # j => FilingKey(compliments[i], compliments[i].complimenter)
                     # FilingKey(compliments[j], compliments[j].complimenter)

\* C25 (as claimed): a customer's is_blacklisted goes from TRUE to FALSE
\* only in a step of the manager's approve_registration action; no step of
\* create_order, cancel_order, add_deposit, a complaint's resolution or the
\* VIP evaluation clears it.
C25_BlacklistedIsSticky ==
    [][ \A c \in Customers :
          (customers[c].is_blacklisted /\ ~customers'[c].is_blacklisted)
          => ApproveRegistration(c)
      ]_vars

\* The changes that turn the employee row before into the row after.
ChangesBetween(before, after) ==
    (IF after.demotion_count > before.demotion_count THEN {"demotion"} ELSE {})
    \cup (IF before.is_active /\ ~after.is_active THEN {"fired"} ELSE {})
    \cup (IF after.bonus_count > before.bonus_count THEN {"bonus"} ELSE {})

\* C26 (as claimed): a run of the sweep with --dry-run changes no employee,
\* and the changes it reports for each employee are exactly the changes a
\* real run from the same state makes to that employee.
C26_DryRunReportsRealRun ==
    [][ (resp'.op = "update_employee_status" /\ resp'.detail = "dry_run") =>
          /\ chefs' = chefs
          /\ couriers' = couriers
          /\ \A h \in Chefs :
                resp'.report[h] = ChangesBetween(chefs[h], UpdateChefs(chefs)[h])
          /\ \A k \in Couriers :
                resp'.report[k] = ChangesBetween(couriers[k], UpdateDeliveryPersons(couriers)[k])
      ]_vars

\* C27 (as claimed): whatever create_order, cancel_order and the manager's
\* status changes do, an order's total is credited back to the deposit at
\* most once, so the credits never exceed the debits: a customer who paid
\* in 50.00 never holds more than 50.00.
C27_RefundedAtMostOnce ==
    \A c \in Customers : customers[c].deposit <= PaidIn

\* The sum of total_amount over the orders S that belong to customer c and
\* are not cancelled.
RECURSIVE LiveOrdersTotal(_, _)
LiveOrdersTotal(c, S) ==
    IF S = {} THEN 0
    ELSE LET o == CHOOSE p \in S : TRUE
         IN  (IF orders[o].customer = c /\ orders[o].status # "cancelled"
              THEN orders[o].total_amount ELSE 0) + LiveOrdersTotal(c, S \ {o})

\* C28 (as claimed): in every state reached through create_order and
\* cancel_order a customer's total_spent is the sum of total_amount over
\* the customer's orders that are not cancelled.
C28_TotalSpentIsLiveOrders ==
    \A c \in Customers :
        customers[c].total_spent = LiveOrdersTotal(c, DOMAIN orders)

\* Chef h has no rating, no resolved complaint and no approved compliment.
NothingOnRecord(h) ==
    /\ ChefRatings(ratings, h) = {}
    /\ ResolvedComplaints(complaints, h) = 0
    /\ ApprovedCompliments(compliments, h) = 0

\* C29 (as claimed): an active employee with no ratings, no resolved
\* complaints and no approved compliments keeps demotion_count and
\* is_active through a run of the batch sweep and through
\* check_employee_ratings alike.
C29_CleanEmployeeUntouched ==
    [][ ( \/ resp'.op = "update_employee_status" /\ resp'.detail = "applied"
          \/ resp'.op = "check_employee_ratings" )
        => \A h \in Chefs :
              (chefs[h].is_active /\ NothingOnRecord(h))
              => /\ chefs'[h].demotion_count = chefs[h].demotion_count
                 /\ chefs'[h].is_active
      ]_vars

\* C30 (as claimed): after handle_employee_demotion has run for a newly
\* created resolved complaint the employee's stored demotion_count is one
\* more than before, and a stored count of 2 or more comes with
\* is_active = FALSE; after handle_employee_bonus has run for a newly
\* created approved compliment the stored bonus_count is one more than
\* before.
C30_InlineChangeIsStored ==
    [][ /\ resp'.op = "create_resolved_complaint" =>
              /\ chefs'[resp'.who].demotion_count = chefs[resp'.who].demotion_count + 1
              /\ chefs'[resp'.who].demotion_count >= 2 => ~chefs'[resp'.who].is_active
        /\ resp'.op = "create_approved_compliment" =>
              chefs'[resp'.who].bonus_count = chefs[resp'.who].bonus_count + 1
      ]_vars

====
